---- MODULE Spec2Model ----
(***************************************************************************)
(* Model of src/src/kubernetes/templates/template_engine.py: the Kata pod  *)
(* template engine (KataPodTemplateEngine), the TemplateVariables holder   *)
(* and the three YAML-fragment formatting helpers.                         *)
(*                                                                         *)
(* A text (a Python str) is a sequence of one-character strings, so that   *)
(* the regular expression of render, str.replace and the line structure    *)
(* read by the YAML parser are computed character by character.            *)
(***************************************************************************)
EXTENDS Integers, Sequences, FiniteSets, TLC

VARIABLES
    fs,                 \* the filesystem: path -> [exists, content]
    template_content,   \* self._template_content: [some, val] (None: some = FALSE)
    op                  \* the last call made, its arguments and its outcome

vars == <<fs, template_content, op>>

----------------------------------------------------------------------------
(* Bounds of the model.                                                    *)

MaxPieces == 3      \* pieces a rendered-template input is assembled from
MaxEntries == 2     \* entries of a mapping handed to a formatting helper

----------------------------------------------------------------------------
(* Characters and text helpers.                                            *)

Letters ==
    {"a","b","c","d","e","f","g","h","i","j","k","l","m","n","o","p","q","r",
     "s","t","u","v","w","x","y","z","A","B","C","D","E","F","G","H","I","J",
     "K","L","M","N","O","P","Q","R","S","T","U","V","W","X","Y","Z"}

DigitChars == {"0","1","2","3","4","5","6","7","8","9"}

\* The characters \w matches.
WordChars == Letters \cup DigitChars \cup {"_"}

NL == "\n"

StartsAt(s, i, p) ==
    /\ i + Len(p) - 1 <= Len(s)
    /\ SubSeq(s, i, i + Len(p) - 1) = p

RECURSIVE Join(_, _)
Join(parts, sep) ==
    IF parts = <<>> THEN <<>>
    ELSE IF Len(parts) = 1 THEN parts[1]
    ELSE parts[1] \o sep \o Join(Tail(parts), sep)

RECURSIVE Concat(_)
Concat(parts) == IF parts = <<>> THEN <<>> ELSE parts[1] \o Concat(Tail(parts))

Range(f) == {f[i] : i \in DOMAIN f}

Min(S) == CHOOSE x \in S : \A y \in S : x <= y

\* The first index from i on at which p occurs in s, 0 when there is none.
Find(s, i, p) ==
    IF \E k \in i..Len(s) : StartsAt(s, k, p)
    THEN Min({k \in i..Len(s) : StartsAt(s, k, p)})
    ELSE 0

----------------------------------------------------------------------------
(* Values of the Variable Set and str().                                   *)

SV(s) == [t |-> "str", s |-> s, n |-> 0]
IV(n) == [t |-> "int", s |-> <<>>, n |-> n]

DigitOf(d) ==
    <<"0","1","2","3","4","5","6","7","8","9">>[d + 1]

RECURSIVE Digits(_)
Digits(n) == IF n < 10 THEN <<DigitOf(n)>> ELSE Digits(n \div 10) \o <<DigitOf(n % 10)>>

\* str(value): a str is itself, an int its decimal digits.
Str(v) == IF v.t = "int" THEN Digits(v.n) ELSE v.s

kAGENT_ID == <<"A","G","E","N","T","_","I","D">>
kNAMESPACE == <<"N","A","M","E","S","P","A","C","E">>
kIMAGE == <<"I","M","A","G","E">>
kCPU_LIMIT == <<"C","P","U","_","L","I","M","I","T">>
kMEMORY_LIMIT == <<"M","E","M","O","R","Y","_","L","I","M","I","T">>
kENV_VARS == <<"E","N","V","_","V","A","R","S">>
kVOLUME_MOUNTS == <<"V","O","L","U","M","E","_","M","O","U","N","T","S">>
kVOLUMES == <<"V","O","L","U","M","E","S">>

\* TemplateVariables(AGENT_ID, ...): the dataclass with its defaults.
TemplateVariables(agent_id, namespace, env_vars) ==
    [AGENT_ID |-> agent_id,
     NAMESPACE |-> namespace,
     IMAGE |-> SV(<<"g","o","d","e","l","/","a","g","e","n","t",":","l","a","t","e","s","t">>),
     CPU_LIMIT |-> SV(<<"5","0","0","m">>),
     MEMORY_LIMIT |-> SV(<<"5","1","2","M","i">>),
     ENV_VARS |-> env_vars,
     VOLUME_MOUNTS |-> SV(<<>>),
     VOLUMES |-> SV(<<>>)]

DefaultNamespace == SV(<<"d","e","f","a","u","l","t">>)

\* to_dict: the mapping, as its items in insertion order.
to_dict(v) ==
    << <<kAGENT_ID, v.AGENT_ID>>,
       <<kNAMESPACE, v.NAMESPACE>>,
       <<kIMAGE, v.IMAGE>>,
       <<kCPU_LIMIT, v.CPU_LIMIT>>,
       <<kMEMORY_LIMIT, v.MEMORY_LIMIT>>,
       <<kENV_VARS, v.ENV_VARS>>,
       <<kVOLUME_MOUNTS, v.VOLUME_MOUNTS>>,
       <<kVOLUMES, v.VOLUMES>> >>

Keys(items) == {items[i][1] : i \in DOMAIN items}

----------------------------------------------------------------------------
(* render: the placeholder scan and the substitution.                      *)

\* Length of the longest run of \w characters of s that starts at i.
WordRun(s, i) ==
    IF \E k \in i..Len(s) : s[k] \notin WordChars
    THEN Min({k \in i..Len(s) : s[k] \notin WordChars}) - i
    ELSE Len(s) + 1 - i

\* Whether the n word characters after "{{" at i are closed by "}}".
Closed(s, i, n) ==
    /\ n >= 1
    /\ i + n + 3 <= Len(s)
    /\ s[i + n + 2] = "}"
    /\ s[i + n + 3] = "}"

\* Length of the match of \{\{(\w+)\}\} at i, 0 when there is none.
MatchAt(s, i) ==
    IF i + 1 <= Len(s) /\ s[i] = "{" /\ s[i + 1] = "{" /\ Closed(s, i, WordRun(s, i + 2))
    THEN WordRun(s, i + 2) + 4
    ELSE 0

\* The first index from i on at which the pattern matches, 0 when none does.
NextMatch(s, i) ==
    IF \E k \in i..Len(s) : MatchAt(s, k) > 0
    THEN Min({k \in i..Len(s) : MatchAt(s, k) > 0})
    ELSE 0

RECURSIVE FindAllFrom(_, _)
\* re.findall(pattern, s): the groups of the non-overlapping matches, left
\* to right; the scan resumes where a match ends.
FindAllFrom(s, i) ==
    IF NextMatch(s, i) = 0 THEN <<>>
    ELSE <<SubSeq(s, NextMatch(s, i) + 2, NextMatch(s, i) + MatchAt(s, NextMatch(s, i)) - 3)>>
         \o FindAllFrom(s, NextMatch(s, i) + MatchAt(s, NextMatch(s, i)))

FindAll(s) == FindAllFrom(s, 1)

Placeholder(key) == <<"{", "{">> \o key \o <<"}", "}">>

RECURSIVE ReplaceFrom(_, _, _, _)
\* The occurrences of old are taken left to right, each search resuming
\* where the occurrence before it ends.
ReplaceFrom(s, i, old, new) ==
    IF Find(s, i, old) = 0 THEN SubSeq(s, i, Len(s))
    ELSE SubSeq(s, i, Find(s, i, old) - 1) \o new
         \o ReplaceFrom(s, Find(s, i, old) + Len(old), old, new)

\* s.replace(old, new), old not empty.
Replace(s, old, new) == ReplaceFrom(s, 1, old, new)

RECURSIVE SubstituteFrom(_, _, _)
\* The loop of render over var_dict.items(), from item i on.
SubstituteFrom(result, items, i) ==
    IF i > Len(items) THEN result
    ELSE SubstituteFrom(
             Replace(result, Placeholder(items[i][1]), Str(items[i][2])),
             items, i + 1)

Substitute(template, items) == SubstituteFrom(template, items, 1)

\* A gate that stops at the first missing name.
MissingFirstOnly(template, items) ==
    IF \E i \in DOMAIN FindAll(template) : FindAll(template)[i] \notin Keys(items)
    THEN {FindAll(template)[Min({i \in DOMAIN FindAll(template) :
                                     FindAll(template)[i] \notin Keys(items)})]}
    ELSE {}

\* matches - set(var_dict.keys())
Missing(template, items) == Range(FindAll(template)) \ Keys(items)

----------------------------------------------------------------------------
(* yaml.safe_load, on the subset of YAML the engine's documents and the    *)
(* helpers' fragments use: a block mapping or block sequence of mappings   *)
(* with one level of nested block mapping, one-line flow mappings, the     *)
(* empty flow sequence, plain and double-quoted one-line scalars. Text     *)
(* outside this subset is reported as a syntax error.                      *)

\* A parsed value: None, str, int, bool, dict (m: its items) or list (m).
YNull == [t |-> "null", s |-> <<>>, m |-> <<>>]
YStr(x) == [t |-> "str", s |-> x, m |-> <<>>]
YInt(x) == [t |-> "int", s |-> x, m |-> <<>>]
YBool(x) == [t |-> "bool", s |-> x, m |-> <<>>]
YMap(items) == [t |-> "map", s |-> <<>>, m |-> items]
YSeq(items) == [t |-> "seq", s |-> <<>>, m |-> items]

RECURSIVE DictFrom(_, _, _)
\* The dict built by inserting items in order: a repeated key keeps its
\* first position and takes the last value.
\* acc[k] = v
SetItem(acc, k, v) ==
    IF \E j \in DOMAIN acc : acc[j][1] = k
    THEN [j \in DOMAIN acc |-> IF acc[j][1] = k THEN <<k, v>> ELSE acc[j]]
    ELSE Append(acc, <<k, v>>)

DictFrom(items, i, acc) ==
    IF i > Len(items) THEN acc
    ELSE DictFrom(items, i + 1,
                  SetItem(acc, items[i][1],
                          IF items[i][2].t = "map"
                          THEN YMap(DictFrom(items[i][2].m, 1, <<>>))
                          ELSE items[i][2]))

Dict(items) == YMap(DictFrom(items, 1, <<>>))

RECURSIVE SplitFrom(_, _, _)
SplitFrom(s, sep, i) ==
    IF Find(s, i, <<sep>>) = 0 THEN <<SubSeq(s, i, Len(s))>>
    ELSE <<SubSeq(s, i, Find(s, i, <<sep>>) - 1)>> \o SplitFrom(s, sep, Find(s, i, <<sep>>) + 1)

\* s.split(sep) for a one-character separator.
Split(s, sep) == SplitFrom(s, sep, 1)

RECURSIVE Indent(_)
Indent(line) ==
    IF line # <<>> /\ Head(line) = " " THEN 1 + Indent(Tail(line)) ELSE 0

RECURSIVE RStrip(_)
RStrip(s) ==
    IF s # <<>> /\ s[Len(s)] = " " THEN RStrip(SubSeq(s, 1, Len(s) - 1)) ELSE s

Strip(s) == RStrip(SubSeq(s, Indent(s) + 1, Len(s)))

Contains(s, p) == \E i \in 1..Len(s) : StartsAt(s, i, p)

FlowChars == {"{", "}", "[", "]", ","}

Indicators == FlowChars \cup {"#", "&", "*", "!", "|", ">", "'", "\"", "%", "@"}

\* Whether s is a one-line plain scalar (in a flow collection when flow).
PlainOK(s, flow) ==
    /\ s # <<>>
    /\ s[1] \notin Indicators
    /\ ~(s[1] \in {"-", "?", ":"} /\ (Len(s) = 1 \/ s[2] = " "))
    /\ ~Contains(s, <<":", " ">>)
    /\ s[Len(s)] # ":"
    /\ ~Contains(s, <<" ", "#">>)
    /\ flow => \A i \in 1..Len(s) : s[i] \notin FlowChars

\* The implicit type of a plain scalar.
Resolve(s) ==
    IF s \in {<<"n","u","l","l">>, <<"~">>} THEN YNull
    ELSE IF s \in {<<"t","r","u","e">>, <<"f","a","l","s","e">>,
                   <<"y","e","s">>, <<"n","o">>, <<"o","n">>, <<"o","f","f">>}
         THEN YBool(s)
    ELSE IF \A i \in 1..Len(s) : s[i] \in DigitChars THEN YInt(s)
    ELSE YStr(s)

\* The first ":" of b that ends a key (followed by a space or the line's end).
EndsKey(b, i) == b[i] = ":" /\ (i = Len(b) \/ b[i + 1] = " ")

ColonFrom(b, i) ==
    IF \E k \in i..Len(b) : EndsKey(b, k)
    THEN Min({k \in i..Len(b) : EndsKey(b, k)})
    ELSE 0

Bad == [ok |-> FALSE, val |-> YNull]
Good(v) == [ok |-> TRUE, val |-> v]

\* A one-line scalar: "" (None), double-quoted, or plain.
ParseScalar(v, flow) ==
    IF v = <<>> THEN Good(YNull)
    ELSE IF v[1] = "\""
         THEN IF Len(v) >= 2 /\ v[Len(v)] = "\""
                 /\ \A i \in 2..(Len(v) - 1) : v[i] \notin {"\"", "\\"}
              THEN Good(YStr(SubSeq(v, 2, Len(v) - 1)))
              ELSE Bad
    ELSE IF PlainOK(v, flow) THEN Good(Resolve(v))
    ELSE Bad

\* "key: value" or "key:" with a plain key; the value's text is not parsed here.
NoEntry == [ok |-> FALSE, key |-> YNull, val |-> <<>>]

\* The entry of b whose key ends at the colon at c.
EntryAt(b, c, key, flow) ==
    IF PlainOK(key, flow)
    THEN [ok |-> TRUE, key |-> Resolve(key), val |-> Strip(SubSeq(b, c + 1, Len(b)))]
    ELSE NoEntry

KeyColon(b) == IF b # <<>> /\ b[1] \in Indicators THEN 0 ELSE ColonFrom(b, 1)

EntryFrom(b, c, flow) ==
    IF c > 1 THEN EntryAt(b, c, RStrip(SubSeq(b, 1, c - 1)), flow) ELSE NoEntry

Entry(b, flow) == EntryFrom(b, KeyColon(b), flow)

RECURSIVE FlowItems(_, _)
\* The items of a flow mapping from its comma-separated parts.
NoItems == [ok |-> FALSE, items |-> <<>>]

\* The item <<k, v>> put before the items of rest.
FlowCons(k, v, rest) ==
    IF v.ok /\ rest.ok
    THEN [ok |-> TRUE, items |-> << <<k, v.val>> >> \o rest.items]
    ELSE NoItems

\* One part of a flow mapping, "key: value" or "key", before rest.
FlowItem(b, e, rest) ==
    IF e.ok THEN FlowCons(e.key, ParseScalar(e.val, TRUE), rest)
    ELSE IF PlainOK(b, TRUE) THEN FlowCons(Resolve(b), Good(YNull), rest)
    ELSE NoItems

FlowItems(parts, i) ==
    IF i > Len(parts) THEN [ok |-> TRUE, items |-> <<>>]
    ELSE FlowItem(Strip(parts[i]), Entry(Strip(parts[i]), TRUE), FlowItems(parts, i + 1))

\* A node written on one line: a flow mapping, [], or a scalar.
FlowMap(r) == IF r.ok THEN Good(Dict(r.items)) ELSE Bad

FlowMapping(inner) ==
    IF inner = <<>> THEN Good(YMap(<<>>)) ELSE FlowMap(FlowItems(Split(inner, ","), 1))

ParseNode(v) ==
    IF v # <<>> /\ v[1] = "{"
    THEN IF v[Len(v)] # "}" \/ Len(v) < 2 THEN Bad
         ELSE FlowMapping(Strip(SubSeq(v, 2, Len(v) - 1)))
    ELSE IF v # <<>> /\ v[1] = "["
         THEN IF Strip(SubSeq(v, 2, Len(v) - 1)) = <<>> /\ Len(v) >= 2 /\ v[Len(v)] = "]"
              THEN Good(YSeq(<<>>))
              ELSE Bad
    ELSE ParseScalar(v, FALSE)

\* The block parser's state: items is the list built so far (for a document
\* that is a mapping, its single element is that mapping's item list).
ParseState(ok, isSeq, items, d, hdr, nest) ==
    [ok |-> ok, isSeq |-> isSeq, items |-> items, d |-> d, hdr |-> hdr, nest |-> nest]

FailState == ParseState(FALSE, FALSE, <<>>, 0, FALSE, 0)

\* st with the item <<k, v>> added to its last mapping.
AddPair(st, k, v, isHdr) ==
    [st EXCEPT !.items[Len(st.items)] = Append(@, <<k, v>>), !.hdr = isHdr, !.nest = 0]

\* The items of a mapping's value v (none unless it is a mapping) and <<k, w>>.
Extend(v, k, w) == YMap(Append(IF v.t = "map" THEN v.m ELSE <<>>, <<k, w>>))

\* st with <<k, v>> added to the nested mapping that is the value of the
\* last item of its last mapping.
AddNested(st, k, v, ind) ==
    [st EXCEPT !.items[Len(st.items)][Len(st.items[Len(st.items)])] =
                   <<@[1], Extend(@[2], k, v)>>,
               !.hdr = FALSE, !.nest = ind]

IsDash(b) == b = <<"-">> \/ StartsAt(b, 1, <<"-", " ">>)

\* The entry <<k, v>> of a line indented by ind, put where it belongs.
PlaceEntry(st, ind, dash, k, v, isHdr) ==
    IF dash
    THEN IF st.isSeq /\ (st.items = <<>> \/ ind = st.d)
         THEN AddPair([st EXCEPT !.items = Append(@, <<>>), !.d = ind], k, v, isHdr)
         ELSE FailState
    ELSE IF st.items = <<>> THEN FailState
    ELSE IF ind = st.d + 2 THEN AddPair(st, k, v, isHdr)
    ELSE IF ind > st.d + 2 /\ (st.hdr \/ st.nest = ind) THEN AddNested(st, k, v, ind)
    ELSE FailState

PlaceNode(st, ind, dash, e, v) ==
    IF v.ok THEN PlaceEntry(st, ind, dash, e.key, v.val, e.val = <<>>) ELSE FailState

PlaceLine(st, ind, dash, e) ==
    IF e.ok THEN PlaceNode(st, ind, dash, e, ParseNode(e.val)) ELSE FailState

\* The text of a line after its "- ", if it has one.
Body(b) == IF IsDash(b) THEN Strip(SubSeq(b, 2, Len(b))) ELSE b

\* One line of a block collection.
ParseLine(st, line) ==
    IF ~st.ok \/ Strip(line) = <<>> THEN st
    ELSE PlaceLine(st, Indent(line), IsDash(Strip(line)), Entry(Body(Strip(line)), FALSE))

RECURSIVE ParseLines(_, _, _)
ParseLines(st, lines, i) ==
    IF i > Len(lines) THEN st ELSE ParseLines(ParseLine(st, lines[i]), lines, i + 1)

IsContent(line) == Strip(line) # <<>>

\* The list a block sequence's lines parse to.
BlockSeq(st) ==
    IF st.ok THEN Good(YSeq([i \in DOMAIN st.items |-> Dict(st.items[i])])) ELSE Bad

\* The dict a block mapping's lines parse to.
BlockMap(st) == IF st.ok THEN Good(Dict(st.items[1])) ELSE Bad

\* A document whose first line with content is first.
Document(lines, first, count) ==
    IF IsDash(first)
    THEN BlockSeq(ParseLines(ParseState(TRUE, TRUE, <<>>, 0, FALSE, 0), lines, 1))
    ELSE IF Entry(first, FALSE).ok
         THEN BlockMap(ParseLines(ParseState(TRUE, FALSE, << <<>> >>, 0 - 2, FALSE, 0),
                                  lines, 1))
    ELSE IF count = 1 THEN ParseNode(first)
    ELSE Bad

LoadLines(lines, content) ==
    IF content = <<>> THEN Good(YNull)
    ELSE Document(lines, Strip(content[1]), Len(content))

\* yaml.safe_load(text): [ok, val]; ok = FALSE is a yaml.YAMLError.
safe_load(text) == LoadLines(Split(text, NL), SelectSeq(Split(text, NL), IsContent))

----------------------------------------------------------------------------
(* Outcomes: what a call returns or raises.                                *)

\* exc: "none" or the exception class; kind: the message it carries;
\* path: a returned Path;
\* text: a returned str; missing: the names of a RenderingError;
\* field: the name in "Missing required field"; got: the kind found;
\* parsed: a returned parsed document.
Outcome(exc, kind, text, missing, field, got, parsed) ==
    [exc |-> exc, kind |-> kind, text |-> text, missing |-> missing,
     field |-> field, got |-> got, parsed |-> parsed, path |-> ""]

NoOutcome == Outcome("none", "none", <<>>, {}, <<>>, YNull, YNull)
ReturnText(text) == Outcome("none", "text", text, {}, <<>>, YNull, YNull)
ReturnParsed(parsed) == Outcome("none", "parsed", <<>>, {}, <<>>, YNull, parsed)
ReturnPath(path) == [NoOutcome EXCEPT !.kind = "path", !.path = path]
Raise(exc, kind) == Outcome(exc, kind, <<>>, {}, <<>>, YNull, YNull)

\* FileNotFoundError("Template not found: ...")
NotFound == Raise("FileNotFoundError", "NotFound")
\* RenderingError("Missing template variables: {missing}")
MissingVariables(missing) ==
    Outcome("RenderingError", "MissingVariables", <<>>, missing, <<>>, YNull, YNull)
\* ValidationError("Invalid YAML syntax: ...")
InvalidSyntax == Raise("ValidationError", "InvalidSyntax")
\* ValidationError("YAML must be a dictionary/object")
InvalidStructure == Raise("ValidationError", "InvalidStructure")
\* ValidationError("Missing required field: {field}")
MissingField(field) ==
    Outcome("ValidationError", "MissingField", <<>>, {}, field, YNull, YNull)
\* ValidationError("Expected kind 'Pod', got '...'")
WrongKind(got) ==
    Outcome("ValidationError", "WrongKind", <<>>, {}, <<>>, got, YNull)
\* ValidationError("runtimeClassName must be 'kata'")
InvalidRuntimeClass == Raise("ValidationError", "InvalidRuntimeClass")
\* The AttributeError of calling .get on a value that is not a dict.
NoGetAttribute == Raise("AttributeError", "NoGetAttribute")

Raised(out) == out.exc # "none"

----------------------------------------------------------------------------
(* validate_yaml.                                                          *)

fApiVersion == <<"a","p","i","V","e","r","s","i","o","n">>
fKind == <<"k","i","n","d">>
fMetadata == <<"m","e","t","a","d","a","t","a">>
fSpec == <<"s","p","e","c">>
fRuntimeClassName == <<"r","u","n","t","i","m","e","C","l","a","s","s","N","a","m","e">>
sPod == <<"P","o","d">>
sKata == <<"k","a","t","a">>

required_fields == <<fApiVersion, fKind, fMetadata, fSpec>>

\* field in d
In(d, field) == \E i \in DOMAIN d.m : d.m[i][1] = YStr(field)

\* d.get(field, default)
Get(d, field, default) ==
    IF In(d, field)
    THEN d.m[CHOOSE i \in DOMAIN d.m : d.m[i][1] = YStr(field)][2]
    ELSE default

RECURSIVE FirstMissingFrom(_, _)
\* The loop over required_fields: the index of the first field not in
\* parsed, 0 when all are there.
FirstMissingFrom(parsed, i) ==
    IF i > Len(required_fields) THEN 0
    ELSE IF ~In(parsed, required_fields[i]) THEN i
    ELSE FirstMissingFrom(parsed, i + 1)

\* The runtimeClassName check; spec.get raises unless spec is a dict.
CheckSpec(parsed, spec) ==
    IF spec.t # "map" THEN NoGetAttribute
    ELSE IF Get(spec, fRuntimeClassName, YNull) # YStr(sKata) THEN InvalidRuntimeClass
    ELSE ReturnParsed(parsed)

CheckRuntimeClass(parsed) == CheckSpec(parsed, Get(parsed, fSpec, YMap(<<>>)))

\* The kind check, then the runtimeClassName check.
CheckKind(parsed) ==
    IF Get(parsed, fKind, YNull) # YStr(sPod)
    THEN WrongKind(Get(parsed, fKind, YNull))
    ELSE CheckRuntimeClass(parsed)

\* The kind looked at before the required fields.
CheckKindFirst(parsed, miss) ==
    IF Get(parsed, fKind, YNull) # YStr(sPod) THEN WrongKind(Get(parsed, fKind, YNull))
    ELSE IF miss # 0 THEN MissingField(required_fields[miss])
    ELSE CheckRuntimeClass(parsed)

\* The required-field loop, then the checks after it.
CheckFields(parsed, miss) ==
    IF miss # 0 THEN MissingField(required_fields[miss]) ELSE CheckKind(parsed)

\* The checks on what safe_load returned or raised.
CheckLoaded(loaded) ==
    IF ~loaded.ok THEN InvalidSyntax
    ELSE IF loaded.val.t # "map" THEN InvalidStructure
    ELSE CheckFields(loaded.val, FirstMissingFrom(loaded.val, 1))

validate_yaml(yaml_content) == CheckLoaded(safe_load(yaml_content))

----------------------------------------------------------------------------
(* The formatting helpers. A mapping is the sequence of its items, in      *)
(* iteration order.                                                        *)

sEmptyList == <<" ", "[", "]">>

RECURSIVE EnvLines(_, _)
EnvLines(env_dict, i) ==
    IF i > Len(env_dict) THEN <<>>
    ELSE << <<>>,
            <<" "," "," "," ","-"," ","n","a","m","e",":"," ">> \o env_dict[i][1],
            <<" "," "," "," "," "," ","v","a","l","u","e",":"," ","\"">>
                \o env_dict[i][2] \o <<"\"">> >>
         \o EnvLines(env_dict, i + 1)

format_env_vars(env_dict) ==
    IF env_dict = <<>> THEN sEmptyList ELSE Join(EnvLines(env_dict, 1), <<NL>>)

RECURSIVE MountLines(_, _)
MountLines(mounts, i) ==
    IF i > Len(mounts) THEN <<>>
    ELSE << <<>>,
            <<" "," "," "," ","-"," ","n","a","m","e",":"," ">> \o mounts[i][1],
            <<" "," "," "," "," "," ","m","o","u","n","t","P","a","t","h",":"," ">>
                \o mounts[i][2] >>
         \o MountLines(mounts, i + 1)

format_volume_mounts(mounts) ==
    IF mounts = <<>> THEN sEmptyList ELSE Join(MountLines(mounts, 1), <<NL>>)

\* A property of a volume: a scalar (s) or a one-level mapping (m).
Scalar(s) == [isdict |-> FALSE, s |-> s, m |-> <<>>]
Nested(m) == [isdict |-> TRUE, s |-> <<>>, m |-> m]

RECURSIVE SubLines(_, _)
SubLines(value, j) ==
    IF j > Len(value) THEN <<>>
    ELSE << <<" "," "," "," "," "," ">> \o value[j][1] \o <<":", " ">> \o value[j][2] >>
         \o SubLines(value, j + 1)

RECURSIVE ConfigLines(_, _)
ConfigLines(config, j) ==
    IF j > Len(config) THEN <<>>
    ELSE (IF config[j][2].isdict
          THEN << <<" "," "," "," ">> \o config[j][1] \o <<":">> >>
               \o SubLines(config[j][2].m, 1)
          ELSE << <<" "," "," "," ">> \o config[j][1] \o <<":", " ">> \o config[j][2].s >>)
         \o ConfigLines(config, j + 1)

RECURSIVE VolumeLines(_, _)
VolumeLines(volumes, i) ==
    IF i > Len(volumes) THEN <<>>
    ELSE << <<>>, <<" "," ","-"," ","n","a","m","e",":"," ">> \o volumes[i][1] >>
         \o ConfigLines(volumes[i][2], 1)
         \o VolumeLines(volumes, i + 1)

format_volumes(volumes) ==
    IF volumes = <<>> THEN sEmptyList ELSE Join(VolumeLines(volumes, 1), <<NL>>)

----------------------------------------------------------------------------
(* KataPodTemplateEngine: the instance's state and its methods.            *)

\* self.template_path, fixed by __init__.
template_path == "kata-pod.yaml"

None == [some |-> FALSE, val |-> <<>>]
Some(text) == [some |-> TRUE, val |-> text]

\* Truth value of an Optional[str]: None and "" are false.
Truthy(c) == c.some /\ c.val # <<>>

NoFile == [exists |-> FALSE, content |-> <<>>]
File(text) == [exists |-> TRUE, content |-> text]

\* A method's effect: its outcome, the cache and the filesystem after it,
\* and whether it read the template source.
Effect(out, cache, fsv, loaded) ==
    [out |-> out, cache |-> cache, fs |-> fsv, loaded |-> loaded]

load_template(fsv, cache) ==
    IF ~fsv[template_path].exists
    THEN Effect(NotFound, cache, fsv, FALSE)
    ELSE Effect(ReturnText(fsv[template_path].content),
                Some(fsv[template_path].content), fsv, TRUE)

\* template = self._template_content or self._load_template()
ObtainTemplate(fsv, cache) ==
    IF Truthy(cache)
    THEN Effect(ReturnText(cache.val), cache, fsv, FALSE)
    ELSE load_template(fsv, cache)

\* The missing-variables gate and the substitution, on a template.
RenderDict(template, var_dict, missing) ==
    IF missing # {} THEN MissingVariables(missing)
    ELSE ReturnText(Substitute(template, var_dict))

RenderTemplate(template, variables) ==
    RenderDict(template, to_dict(variables), Missing(template, to_dict(variables)))

\* render after its first statement, whose effect is t.
RenderLoaded(t, variables) ==
    IF Raised(t.out) THEN t
    ELSE [t EXCEPT !.out = RenderTemplate(t.out.text, variables)]

render(fsv, cache, variables) == RenderLoaded(ObtainTemplate(fsv, cache), variables)

\* A composition that validates whatever render left, raised or not.
ValidateRegardless(r) == [r EXCEPT !.out = validate_yaml(r.out.text)]

\* render_and_validate after its call of render, whose effect is r.
ValidateRendered(r) ==
    IF Raised(r.out) THEN r
    ELSE [r EXCEPT !.out = validate_yaml(r.out.text)]

render_and_validate(fsv, cache, variables) ==
    ValidateRendered(render(fsv, cache, variables))

\* A save that writes the file before it looks at the validation.
WriteUnvalidated(r, v, output_path) ==
    [r EXCEPT !.out = IF Raised(v) THEN v ELSE ReturnPath(output_path),
              !.fs = [r.fs EXCEPT ![output_path] = File(r.out.text)]]

\* save_rendered after its call of validate_yaml, whose outcome is v.
WriteValidated(r, v, output_path) ==
    IF Raised(v) THEN [r EXCEPT !.out = v]
    ELSE [r EXCEPT !.out = ReturnPath(output_path),
                   !.fs = [r.fs EXCEPT ![output_path] = File(r.out.text)]]

\* save_rendered after its call of render, whose effect is r.
SaveValidated(r, output_path) ==
    IF Raised(r.out) THEN r
    ELSE WriteValidated(r, validate_yaml(r.out.text), output_path)

save_rendered(fsv, cache, variables, output_path) ==
    SaveValidated(render(fsv, cache, variables), output_path)

----------------------------------------------------------------------------
(* The inputs the calls are made with.                                     *)

sKataValue == SV(sKata)
sAgent == SV(<<"a", "1">>)

\* Variable Sets of the engine's runs.
EngineVars ==
    {TemplateVariables(sAgent, ns, SV(<<>>)) : ns \in {sKataValue, DefaultNamespace}}

ColonSpace == <<":", " ">>

lApi == fApiVersion \o ColonSpace \o <<"v", "1">>
lKindPod == fKind \o ColonSpace \o sPod
lKindService == fKind \o ColonSpace \o <<"S","e","r","v","i","c","e">>
lMetaEmpty == fMetadata \o ColonSpace \o <<"{", "}">>
lSpecEmpty == fSpec \o ColonSpace \o <<"{", "}">>
lSpecNull == fSpec \o <<":">>
lSpecKata == fSpec \o ColonSpace \o <<"{">> \o fRuntimeClassName \o ColonSpace \o sKata \o <<"}">>
lSpecRunc == fSpec \o ColonSpace \o <<"{">> \o fRuntimeClassName \o ColonSpace
                 \o <<"r","u","n","c">> \o <<"}">>
lSpecBlock == fSpec \o <<":", NL, " ", " ">> \o fRuntimeClassName \o ColonSpace \o sKata

\* A pod manifest whose name and runtime class are placeholders.
tplPod ==
    Join(<<lApi, lKindPod,
           fMetadata \o ColonSpace \o <<"{","n","a","m","e",":"," ">>
               \o Placeholder(kAGENT_ID) \o <<"}">>,
           fSpec \o ColonSpace \o <<"{">> \o fRuntimeClassName \o ColonSpace
               \o Placeholder(kNAMESPACE) \o <<"}">> >>, <<NL>>)

\* A manifest that names a placeholder the Variable Set does not have.
tplUnknown == fKind \o ColonSpace \o Placeholder(<<"K">>)

\* A pod manifest whose spec is what VOLUMES holds (nothing, by default).
tplNullSpec == Join(<<lApi, lKindPod, lMetaEmpty, fSpec \o <<":">> \o Placeholder(kVOLUMES)>>, <<NL>>)

\* Template bodies of the engine's runs; the empty file is one of them.
EngineTemplates == {tplPod, tplUnknown, tplNullSpec, <<>>}

OutputPaths == {"out.yaml", template_path}
Paths == {template_path} \cup OutputPaths

sOld == <<"o", "l", "d">>

\* Values of the fields of the Variable Sets render is checked with.
RenderValues ==
    {sAgent,
     SV(Placeholder(kNAMESPACE)),
     SV(Placeholder(kAGENT_ID)),
     SV(<<"{">> \o kNAMESPACE \o <<"}">>),
     IV(7)}

RenderVars ==
    {TemplateVariables(a, ns, SV(<<>>)) : a \in RenderValues, ns \in RenderValues}

\* What the templates render is checked with are assembled from.
Pieces ==
    {Placeholder(kAGENT_ID), Placeholder(kNAMESPACE), Placeholder(<<"K">>),
     Placeholder(<<"x", "_", "1">>), <<"{">>, <<"}">>}

AllKeys ==
    <<kAGENT_ID, kNAMESPACE, kIMAGE, kCPU_LIMIT, kMEMORY_LIMIT, kENV_VARS,
      kVOLUME_MOUNTS, kVOLUMES>>

Reverse(q) == [i \in 1..Len(q) |-> q[Len(q) + 1 - i]]

Placeholders(keys) == [i \in DOMAIN keys |-> Placeholder(keys[i])]

\* Templates holding each recognized placeholder exactly once.
FullTemplates ==
    {Join(Placeholders(ks), sep) : ks \in {AllKeys, Reverse(AllKeys)},
                                   sep \in {<<>>, <<"-">>, <<NL>>}}

RenderTemplates ==
    {Concat(ps) : ps \in UNION {[1..k -> Pieces] : k \in 0..MaxPieces}}
        \cup FullTemplates

\* Documents validate_yaml is checked with: each required line absent or in
\* one of its forms, in the order of required_fields or the reverse, and
\* documents that are no mapping or no YAML.
Absent == <<>>

DocLines ==
    {<<a, k, m, sp>> :
        a \in {Absent, lApi},
        k \in {Absent, lKindPod, lKindService, fKind \o <<":">>},
        m \in {Absent, lMetaEmpty},
        sp \in {Absent, lSpecEmpty, lSpecNull, lSpecKata, lSpecRunc, lSpecBlock,
                fSpec \o ColonSpace \o <<"r","u","n","c">>,
                fSpec \o ColonSpace \o <<"[", "]">>}}

Present(ls) == SelectSeq(ls, LAMBDA l : l # Absent)

OddDocs ==
    {<<>>, <<"x">>, <<"[", "]">>, <<"{", "}">>, <<"{">>,
     <<"-"," ","a",":"," ","1">>,
     fKind \o ColonSpace \o <<"a",":"," ","b">>,
     Join(<<lApi, fKind \o ColonSpace \o Placeholder(kAGENT_ID), lMetaEmpty, lSpecKata>>, <<NL>>)}

Docs ==
    {Join(Present(ls), <<NL>>) : ls \in DocLines}
        \cup {Join(Present(Reverse(ls)), <<NL>>) : ls \in DocLines}
        \cup OddDocs

\* Mappings handed to the helpers: at most MaxEntries items, keys distinct.
HelperKeys == {<<"A">>, <<"B">>, <<"l","o","g">>}

ItemSeqs(values) ==
    {q \in UNION {[1..n -> HelperKeys \X values] : n \in 0..MaxEntries} :
        \A i, j \in DOMAIN q : i # j => q[i][1] # q[j][1]}

EnvValues == {<<"1">>, <<"i","n","f","o">>, <<"x", "\"", "y">>}

MountValues ==
    {<<"/","e","t","c">>, <<>>,
     <<"/","x",NL," "," "," "," ","-"," ","n","a","m","e",":"," ","B">>}

VolumeConfigs ==
    {<<>>,
     << <<<<"e","m","p","t","y","D","i","r">>, Nested(<<>>)>> >>,
     << <<<<"c","o","n","f","i","g","M","a","p">>, Nested(<< <<<<"n","a","m","e">>, <<"c">>>> >>)>>,
        <<<<"m","e","d","i","u","m">>, Scalar(<<"M","e","m","o","r","y">>)>> >>}

----------------------------------------------------------------------------
(* The state machine: one action per call.                                 *)

Call(name, variables, arg, text, path, e) ==
    [name |-> name, vars |-> variables, arg |-> arg, text |-> text, path |-> path,
     out |-> e.out, loaded |-> e.loaded]

NoVars == TemplateVariables(SV(<<>>), DefaultNamespace, SV(<<>>))

Pure(out) == Effect(out, template_content, fs, FALSE)

Idle == Call("init", NoVars, <<>>, <<>>, "", Pure(NoOutcome))

\* The call's effect on the state, and its record.
Apply(e, name, variables, path) ==
    /\ fs' = e.fs
    /\ template_content' = e.cache
    /\ op' = Call(name, variables, <<>>, <<>>, path, e)

Render(variables) ==
    Apply(render(fs, template_content, variables), "render", variables, "")

ValidateYaml(yaml_content) ==
    /\ op' = Call("validate_yaml", NoVars, <<>>, yaml_content, "",
                  Pure(validate_yaml(yaml_content)))
    /\ UNCHANGED <<fs, template_content>>

RenderAndValidate(variables) ==
    Apply(render_and_validate(fs, template_content, variables),
          "render_and_validate", variables, "")

SaveRendered(variables, output_path) ==
    Apply(save_rendered(fs, template_content, variables, output_path),
          "save_rendered", variables, output_path)

FormatEnvVars(env_dict) ==
    /\ op' = Call("format_env_vars", NoVars, env_dict, <<>>, "",
                  Pure(ReturnText(format_env_vars(env_dict))))
    /\ UNCHANGED <<fs, template_content>>

FormatVolumeMounts(mounts) ==
    /\ op' = Call("format_volume_mounts", NoVars, mounts, <<>>, "",
                  Pure(ReturnText(format_volume_mounts(mounts))))
    /\ UNCHANGED <<fs, template_content>>

FormatVolumes(volumes) ==
    /\ op' = Call("format_volumes", NoVars, volumes, <<>>, "",
                  Pure(ReturnText(format_volumes(volumes))))
    /\ UNCHANGED <<fs, template_content>>

\* The filesystem is shared: the template source is written or removed by
\* others between the engine's calls.
WriteSource(text) ==
    /\ fs' = [fs EXCEPT ![template_path] = File(text)]
    /\ op' = Call("write_source", NoVars, <<>>, text, template_path, Pure(NoOutcome))
    /\ UNCHANGED template_content

DeleteSource ==
    /\ fs[template_path].exists
    /\ fs' = [fs EXCEPT ![template_path] = NoFile]
    /\ op' = Call("delete_source", NoVars, <<>>, <<>>, template_path, Pure(NoOutcome))
    /\ UNCHANGED template_content

\* After __init__: nothing cached; the source and the destination may or may
\* not exist.
Init ==
    /\ fs \in {f \in [Paths -> {NoFile, File(sOld)} \cup {File(t) : t \in EngineTemplates}] :
                  /\ f[template_path] # File(sOld)
                  /\ f["out.yaml"] \in {NoFile, File(sOld)}}
    /\ template_content = None
    /\ op = Idle

Next ==
    \/ \E v \in EngineVars : Render(v)
    \/ \E v \in EngineVars : RenderAndValidate(v)
    \/ \E v \in EngineVars, p \in OutputPaths : SaveRendered(v, p)
    \/ op.name = "render" /\ op.out.kind = "text" /\ ValidateYaml(op.out.text)
    \/ \E t \in EngineTemplates : WriteSource(t)
    \/ DeleteSource

Spec == Init /\ [][Next]_vars

\* render alone, on the wide set of templates and values.
InitRender ==
    /\ fs \in {[p \in Paths |-> IF p = template_path THEN File(t) ELSE NoFile] :
                  t \in RenderTemplates}
    /\ template_content = None
    /\ op = Idle

\* The first render of a fresh instance.
NextRender == op = Idle /\ \E v \in RenderVars : Render(v)

SpecRender == InitRender /\ [][NextRender]_vars

InitPure ==
    /\ fs = [p \in Paths |-> NoFile]
    /\ template_content = None
    /\ op = Idle

\* validate_yaml alone, on the wide set of documents.
NextValidate == op = Idle /\ \E d \in Docs : ValidateYaml(d)

SpecValidate == InitPure /\ [][NextValidate]_vars

\* The formatting helpers.
NextFormat ==
    \/ op = Idle /\ \E d \in ItemSeqs(EnvValues) : FormatEnvVars(d)
    \/ op = Idle /\ \E d \in ItemSeqs(MountValues) : FormatVolumeMounts(d)
    \/ op = Idle /\ \E d \in ItemSeqs(VolumeConfigs) : FormatVolumes(d)

SpecFormat == InitPure /\ [][NextFormat]_vars

----------------------------------------------------------------------------
(* What the properties are stated with.                                    *)

\* The names n such that {{n}} occurs in t, n one or more word characters.
TokenNames(t) ==
    {SubSeq(t, i + 2, j - 1) :
        <<i, j>> \in {<<i, j>> \in {i \in 1..Len(t) : StartsAt(t, i, <<"{", "{">>)}
                                  \X {j \in 1..Len(t) : StartsAt(t, j, <<"}", "}">>)} :
                         /\ j >= i + 3
                         /\ \A k \in (i + 2)..(j - 1) : t[k] \in WordChars}}

\* The value items gives name, as text.
ValueOf(items, name) == Str(items[CHOOSE i \in DOMAIN items : items[i][1] = name][2])

RECURSIVE SimultaneousFrom(_, _, _)
\* t from i on with every token of a key of items replaced by that key's
\* value in one pass; what a value brings in is not looked at again.
SimultaneousFrom(t, i, items) ==
    LET k == NextMatch(t, i)
        m == MatchAt(t, k)
        name == SubSeq(t, k + 2, k + m - 3)
    IN  IF k = 0 THEN SubSeq(t, i, Len(t))
        ELSE SubSeq(t, i, k - 1)
             \o (IF name \in Keys(items) THEN ValueOf(items, name) ELSE SubSeq(t, k, k + m - 1))
             \o SimultaneousFrom(t, k + m, items)

Simultaneous(t, items) == SimultaneousFrom(t, 1, items)

Occurrences(t, p) == {i \in 1..Len(t) : StartsAt(t, i, p)}

\* t names each key of the Variable Set exactly once, and nothing else.
EachOnce(t) ==
    /\ \A i \in DOMAIN AllKeys : Cardinality(Occurrences(t, Placeholder(AllKeys[i]))) = 1
    /\ TokenNames(t) = Range(AllKeys)

\* Orders in which the keys of the mapping may be gone through: the
\* mapping's own, its reverse, and their rotations.
Rotate(q, r) == [i \in 1..Len(q) |-> q[((i + r - 1) % Len(q)) + 1]]

KeyOrders(items) ==
    {Rotate(items, r) : r \in 0..(Len(items) - 1)}
        \cup {Rotate(Reverse(items), r) : r \in 0..(Len(items) - 1)}

RenderCalls == {"render", "render_and_validate", "save_rendered"}

FormatCalls == {"format_env_vars", "format_volume_mounts", "format_volumes"}

----------------------------------------------------------------------------
(* The properties.                                                         *)

\* C1: render succeeds iff every name the template references is a key of
\* the variable mapping; when it fails it raises the missing-variables error
\* naming exactly the referenced names that are no key; keys the template
\* does not reference never make it fail.
C1_Completeness ==
    op.name = "render" =>
        LET P == TokenNames(template_content.val)
            K == Keys(to_dict(op.vars))
        IN  /\ ~Raised(op.out) <=> P \subseteq K
            /\ ~Raised(op.out) => op.out.kind = "text"
            /\ Raised(op.out) => op.out = MissingVariables(P \ K)

\* A render refused for two missing names while the template also names a
\* key the mapping has, and the mapping has keys the template does not name.
C1_Witness ==
    /\ op.name = "render"
    /\ op.out.kind = "MissingVariables"
    /\ Cardinality(op.out.missing) = 2
    /\ kAGENT_ID \in TokenNames(template_content.val)
    /\ kNAMESPACE \notin TokenNames(template_content.val)

\* C2: for a template holding each recognized placeholder exactly once, a
\* successful render returns the template with every token replaced by its
\* own value's string form and everything else unchanged: the simultaneous
\* substitution of all tokens.
C2_SubstitutionFidelity ==
    (/\ op.name = "render"
     /\ op.out.kind = "text"
     /\ EachOnce(template_content.val))
        => op.out.text = Simultaneous(template_content.val, to_dict(op.vars))

\* C3: the replacements give the same text for every order of the keys, and
\* a token that enters the result through a value is not replaced.
C3_OrderIndependent ==
    (op.name = "render" /\ op.out.kind = "text") =>
        /\ \A order \in KeyOrders(to_dict(op.vars)) :
               Substitute(template_content.val, order) = op.out.text
        /\ op.out.text = Simultaneous(template_content.val, to_dict(op.vars))

\* C4: once the instance has loaded a template, whatever its text, every
\* later render uses the cached text and does not read the source again, so
\* the cache stays what was first loaded.
C4_CacheBinding ==
    [][(template_content.some /\ op'.name \in RenderCalls)
          => /\ ~op'.loaded
             /\ template_content' = template_content]_vars

\* C5: save_rendered leaves every file as it was and raises the error of
\* render, or else of validate, when one of them fails; otherwise the
\* destination holds exactly the rendered text, nothing else is written and
\* the destination is returned.
C5_SaveGate ==
    [][op'.name = "save_rendered" =>
          \A variables \in {op'.vars} :
          \A r \in {render(fs, template_content, variables)} :
          \A v \in {validate_yaml(r.out.text)} :
              /\ Raised(op'.out) => fs' = fs
              /\ Raised(r.out) => op'.out = r.out
              /\ (~Raised(r.out) /\ Raised(v)) => op'.out = v
              /\ (~Raised(r.out) /\ ~Raised(v)) =>
                     /\ fs' = [fs EXCEPT ![op'.path] = File(r.out.text)]
                     /\ op'.out = ReturnPath(op'.path)]_vars

\* A save refused by validate, with the destination still holding what it
\* held before.
C5_Witness ==
    /\ op.name = "save_rendered"
    /\ op.path = "out.yaml"
    /\ op.out.exc = "ValidationError"
    /\ fs["out.yaml"] = File(sOld)

\* C6: a document that is a mapping with the four required fields and kind
\* Pod, whose spec.runtimeClassName is not exactly kata (the field absent,
\* or spec empty, null or no mapping), fails with InvalidRuntimeClass.
C6_KataInvariant ==
    LET l == safe_load(op.text)
        spec == Get(l.val, fSpec, YNull)
    IN  (/\ op.name = "validate_yaml"
         /\ l.ok
         /\ l.val.t = "map"
         /\ \A i \in DOMAIN required_fields : In(l.val, required_fields[i])
         /\ Get(l.val, fKind, YNull) = YStr(sPod)
         /\ ~(spec.t = "map" /\ Get(spec, fRuntimeClassName, YNull) = YStr(sKata)))
            => op.out = InvalidRuntimeClass

\* C7: validate reports the earliest failing check, in the order syntax,
\* top-level mapping, required fields (apiVersion, kind, metadata, spec),
\* kind, runtime class; what the runtime class check raises, and success,
\* are reached only when every earlier check passes.
C7_CheckOrder ==
    LET l == safe_load(op.text)
        absent == {i \in DOMAIN required_fields : ~In(l.val, required_fields[i])}
        isMap == l.ok /\ l.val.t = "map"
        kind == Get(l.val, fKind, YNull)
        spec == Get(l.val, fSpec, YNull)
        early == {"InvalidSyntax", "InvalidStructure", "MissingField", "WrongKind"}
    IN  op.name = "validate_yaml" =>
            /\ ~l.ok => op.out = InvalidSyntax
            /\ (l.ok /\ ~isMap) => op.out = InvalidStructure
            /\ (isMap /\ absent # {}) => op.out = MissingField(required_fields[Min(absent)])
            /\ (isMap /\ absent = {} /\ kind # YStr(sPod)) => op.out = WrongKind(kind)
            /\ (isMap /\ absent = {} /\ kind = YStr(sPod)) => op.out.kind \notin early
            /\ (isMap /\ absent = {} /\ kind = YStr(sPod) /\ spec.t = "map") =>
                   IF Get(spec, fRuntimeClassName, YNull) = YStr(sKata)
                   THEN op.out = ReturnParsed(l.val)
                   ELSE op.out = InvalidRuntimeClass

\* A Service with every required field and no runtimeClassName, refused for
\* its kind.
C7_Witness ==
    /\ op.name = "validate_yaml"
    /\ op.out.kind = "WrongKind"
    /\ op.out.got = YStr(<<"S","e","r","v","i","c","e">>)
    /\ safe_load(op.text).ok
    /\ ~In(Get(safe_load(op.text).val, fSpec, YNull), fRuntimeClassName)

\* C8: a helper returns " []" for an empty mapping; for n entries its text
\* parses as a sequence of n items, the i-th named by the i-th key, each
\* item's first line preceded by an empty line.
C8_Fragments ==
    LET lines == Split(op.out.text, NL)
        l == safe_load(op.out.text)
    IN  op.name \in FormatCalls =>
            /\ op.arg = <<>> => op.out.text = sEmptyList
            /\ op.arg # <<>> =>
                   /\ l.ok
                   /\ l.val.t = "seq"
                   /\ Len(l.val.m) = Len(op.arg)
                   /\ \A i \in DOMAIN op.arg :
                          Get(l.val.m[i], <<"n","a","m","e">>, YNull) = YStr(op.arg[i][1])
                   /\ \A j \in DOMAIN lines :
                          IsDash(Strip(lines[j])) => (j > 1 /\ lines[j - 1] = <<>>)

\* C9: render_and_validate leaves the cache and the files as render does,
\* raises what render raises without validating, and otherwise returns or
\* raises what validate does on the rendered text.
C9_Composition ==
    [][op'.name = "render_and_validate" =>
          \A variables \in {op'.vars} :
          \A r \in {render(fs, template_content, variables)} :
          \A v \in {validate_yaml(r.out.text)} :
              /\ template_content' = r.cache
              /\ fs' = r.fs
              /\ op'.loaded = r.loaded
              /\ Raised(r.out) => op'.out = r.out
              /\ ~Raised(r.out) => op'.out = v]_vars

\* A render_and_validate refused by render for a missing variable.
C9_Witness ==
    /\ op.name = "render_and_validate"
    /\ op.out.kind = "MissingVariables"
    /\ template_content = Some(tplUnknown)

\* C10: a render that fails with NotFound leaves the cache unset; a render
\* made with the cache unset and the source there loads it and is not
\* refused as not found; a render that fails with MissingVariables leaves
\* the loaded template in the cache.
C10_NotSticky ==
    [][op'.name \in RenderCalls =>
          /\ op'.out.kind = "NotFound" => template_content' = None
          /\ (template_content = None /\ fs[template_path].exists) =>
                 /\ op'.loaded
                 /\ template_content' = Some(fs[template_path].content)
                 /\ op'.out.kind # "NotFound"
          /\ op'.out.kind = "MissingVariables" =>
                 /\ template_content'.some
                 /\ op'.out.missing = TokenNames(template_content'.val)
                                          \ Keys(to_dict(op'.vars))]_vars

====
